---- MODULE Spec2Model ----
(***************************************************************************)
(* A model of pscoverdl's download engine (src/src/pscoverdl.py):          *)
(* BaseCoverDownloader.download() with its two thread pools, the worker    *)
(* function download_cover(), the cover directory, the gamelist cache and  *)
(* the remote cover repositories.                                          *)
(*                                                                         *)
(* Text is modelled as a sequence of tokens: a URL is the tokens of its    *)
(* root followed by "/", the serial and the extension, so that building a  *)
(* URL and taking Path(url).name / Path(url).stem of it are two different  *)
(* computations.                                                           *)
(***************************************************************************)
EXTENDS Integers, Sequences, FiniteSets, TLC

\* ------------------------------------------------------------------ bounds

\* Number of distinct serials that the gamelist cache may hold.
NumSerials == 5

\* Every configuration and cover directory is run on the gamelist caches of
\* up to SmallCatalog serials; the cache of NumSerials serials, which keeps
\* more downloads queued than a pool has workers, is run on one of them.
SmallCatalog == 2

\* ------------------------------------------------------- program constants

PS1_COVERS_URL_DEFAULT ==
    << "https://", "raw.githubusercontent.com", "/", "xlenore", "/",
       "psx-covers", "/", "main", "/", "covers", "/", "default" >>

PS1_COVERS_URL_3D ==
    << "https://", "raw.githubusercontent.com", "/", "xlenore", "/",
       "psx-covers", "/", "main", "/", "covers", "/", "3d" >>

PS2_COVERS_URL_DEFAULT ==
    << "https://", "raw.githubusercontent.com", "/", "xlenore", "/",
       "ps2-covers", "/", "main", "/", "covers", "/", "default" >>

PS2_COVERS_URL_3D ==
    << "https://", "raw.githubusercontent.com", "/", "xlenore", "/",
       "ps2-covers", "/", "main", "/", "covers", "/", "3d" >>

\* workers = 4, the max_workers of both ThreadPoolExecutors.
workers == 4

\* ------------------------------------------------------------ input domains

\* The serials the regular expression can find in a gamelist cache, in
\* ascending order.
SerialPool ==
    << "SLUS-20001", "SLUS-20002", "SLUS-20003", "SLUS-20004",
       "SLUS-20005", "SLUS-20006", "SLUS-20007", "SLUS-20008" >>

IndexOf(s) == CHOOSE i \in 1..Len(SerialPool) : SerialPool[i] = s

Emulators == { "pcsx2", "duckstation", "rpcs3" }

CoverTypes == { 0, 1 }

\* What a GET can come back with: HTTP 200, another HTTP status, or a
\* requests.exceptions.RequestException (timeout, DNS failure, reset).
Responses == { "200", "404", "RequestException" }

\* ------------------------------------------------------------------- state

VARIABLES
    emulator,          \* self.emulator
    cover_type,        \* self.cover_type
    use_ssl,           \* self.use_ssl
    fallback,          \* self.fallback
    dirExists,         \* whether self.cover_dir exists
    files,             \* the files of self.cover_dir: a set of <<name, content>>
    cache_exists,      \* whether the gamelist cache file exists
    cache_serials,     \* the serials the gamelist cache file holds
    index_exists,      \* whether the emulator's name dataset file exists
    name_list,         \* local of download(): serial -> name
    pc,                \* position of the main thread
    existing_covers,   \* local of download(): the snapshot of stems
    serial_list,       \* local of download()
    cover_urls,        \* local of download()
    results,           \* local of download(): the primary futures
    failed,            \* local of download()
    fallback_urls,     \* local of download()
    fallback_results,  \* local of download(): the fallback futures
    idx,               \* number of futures the running collection loop has consumed
    gets,              \* every requests.get() issued, in order
    out,               \* every line printed, in order
    cache_text,        \* the characters of the gamelist cache file
    regex,             \* local of get_serial_list(): what re.findall() gave
    read_list,         \* local of get_serial_list(): list(set(regex))
    run,               \* which run on this catalog and directory this is
    skipped            \* the serials the run before gave up on

vars ==
    << emulator, cover_type, use_ssl, fallback, dirExists, files,
       cache_exists, cache_serials, index_exists, name_list, pc,
       existing_covers, serial_list, cover_urls, results, failed,
       fallback_urls, fallback_results, idx, gets, out, cache_text, regex,
       read_list, run, skipped >>

\* ------------------------------------------------------------------- text

\* Path(url).name: the tokens after the last "/".
PathName(url) ==
    LET slashes == { i \in 1..Len(url) : url[i] = "/" }
        last == IF slashes = {} THEN 0
                ELSE CHOOSE i \in slashes : \A j \in slashes : j <= i
    IN  SubSeq(url, last + 1, Len(url))

IsSuffix(tok) == tok \in { ".jpg", ".png", ".txt" }

\* Path(p).stem: the name without its last suffix, as one string.
PathStem(p) ==
    LET name == PathName(p)
    IN  IF Len(name) > 1 /\ IsSuffix(name[Len(name)])
        THEN name[1]
        ELSE name[Len(name)]

\* f"{covers_url}/{game_serial}.jpg"
FormatUrl(base, serial, ext) == base \o << "/", serial, ext >>

\* url.replace("https://", "http://")
ReplaceScheme(url) ==
    [ i \in 1..Len(url) |-> IF url[i] = "https://" THEN "http://" ELSE url[i] ]

\* Path.glob(pattern) for the pattern "*" + ext.
Glob(dir, ext) ==
    { f[1] : f \in { g \in dir : Len(g[1]) > 1 /\ g[1][Len(g[1])] = ext } }

\* The order in which list(set(...)) enumerates a set of serials is not
\* fixed; two enumerations are modelled.
RECURSIVE Ascending(_)
Ascending(S) ==
    IF S = {} THEN << >>
    ELSE LET m == CHOOSE s \in S : \A t \in S : IndexOf(s) <= IndexOf(t)
         IN  << m >> \o Ascending(S \ { m })

Reverse(q) == [ i \in 1..Len(q) |-> q[Len(q) + 1 - i] ]

\* list(regex) without the set(): a serial the cache names twice is listed
\* twice.
ListWithRepeats(S) == { Ascending(S) \o Ascending(S) }

ListOfSet(S) == { Ascending(S), Reverse(Ascending(S)) }

\* A comprehension whose condition was dropped.
FilterKeepsAll(q, drop) == q

\* [x for x in q if x not in drop]
RECURSIVE Filter(_, _)
Filter(q, drop) ==
    IF q = << >> THEN << >>
    ELSE IF Head(q) \in drop THEN Filter(Tail(q), drop)
         ELSE << Head(q) >> \o Filter(Tail(q), drop)

Range(q) == { q[i] : i \in 1..Len(q) }

\* ------------------------------------------------------------- collaborators

Line(kind, serial, name, n) ==
    [ kind |-> kind, serial |-> serial, name |-> name, n |-> n ]

\* The bundled name dataset (GameIndex.yaml / gamedb.json): it names the
\* serials of the pool that have an odd index.
Dataset ==
    [ s \in { SerialPool[i] : i \in { j \in 1..Len(SerialPool) : j % 2 = 1 } }
        |-> "Game" ]

\* get_name_list(): the dataset, or {} with an error line when it is missing.
GetNameList == IF index_exists THEN Dataset ELSE << >>

\* A loader that says nothing about a missing dataset.
GetNameListOutSilent == << >>

GetNameListOut ==
    IF index_exists THEN << >>
    ELSE << Line("ERROR index file not found", "", "", 0) >>

\* serial_to_name(): name_list.get(game_serial), None for a missing key.
SerialToName(names, game_serial) ==
    IF game_serial \in DOMAIN names THEN names[game_serial] ELSE "None"

\* A listing that looks only for files of the requested style.
ExistingCoversOfStyle(dir) ==
    { PathStem(n) : n \in Glob(dir, IF cover_type = 0 THEN ".jpg" ELSE ".png") }

\* existing_covers(): the stems of the *.jpg and *.png files of cover_dir.
ExistingCovers(dir) ==
    { PathStem(n) : n \in Glob(dir, ".jpg") \cup Glob(dir, ".png") }

\* get_serial_list(): the serials of the cache, in the order list(set(...))
\* gave them, without the ones that already have a cover.
GetSerialList(ordered, existing) == Filter(ordered, existing)

\* A reader that says nothing about a missing cache.
GetSerialListOutSilent(ordered) ==
    IF ~cache_exists THEN << >>
    ELSE << Line("LOG games found", "", "", Len(ordered)),
            Line("LOG removing already downloaded covers", "", "", 0) >>

GetSerialListOut(ordered) ==
    IF ~cache_exists
    THEN << Line("ERROR gamelist.cache file not found", "", "", 0) >>
    ELSE << Line("LOG games found", "", "", Len(ordered)),
            Line("LOG removing already downloaded covers", "", "", 0) >>

\* ----------------------------------------------------------- download_cover

\* A future of a pool: the arguments of the submitted download_cover call,
\* how far the call is and, once it has returned, the value it returned.
Future(url, cover_path) ==
    [ url |-> url, cover_path |-> cover_path, state |-> "pending",
      result |-> FALSE, raised |-> FALSE ]

\* A future taken for returned as soon as its call has started.
ResolvedOnceStarted(f) == f.state # "pending"

\* Future.done(): the call has returned.
Resolved(f) == f.state = "done"

InFlight(f) == f.state \in { "running", "hung" }

\* A download_cover() that requests the URL as it was built.
RequestUrlAsBuilt(url) == url

\* The URL download_cover() requests.
RequestUrl(url) == IF ~use_ssl THEN ReplaceScheme(url) ELSE url

\* A download that asks again after the first request.
GetsIssuedWithRetry(pool, url) ==
    << [ url |-> RequestUrl(url), pool |-> pool ],
       [ url |-> RequestUrl(url), pool |-> pool ] >>

\* The requests.get() calls one download_cover() call makes.
GetsIssued(pool, url) == << [ url |-> RequestUrl(url), pool |-> pool ] >>

\* The body written before the status is looked at.
WritesCoverAnyStatus(resp) == resp \in { "200", "404" }

\* Whether download_cover() writes the response body to cover_path.
WritesCover(resp) == resp = "200"

\* A download_cover() without the except clause.
CaughtNothing(resp) == FALSE

\* except requests.exceptions.RequestException: pass
Caught(resp) == resp = "RequestException"

\* Whether download_cover() ends by an exception instead of a return.
Raises(resp) == resp \notin { "200", "404" } /\ ~Caught(resp)

\* The value download_cover() returns, which is the future's result().
DownloadCoverResult(resp) == resp = "200"

\* open(cover_path, "wb").write(content): creates or overwrites the file.
\* A write that leaves nothing in the directory.
WriteFileDiscarded(dir, name, content) == dir

WriteFile(dir, name, content) ==
    { f \in dir : f[1] # name } \cup { << name, content >> }

Futures(pool) == IF pool = "executor" THEN results ELSE fallback_results

Pools == { "executor", "fallback_executor" }

Busy(futs) == Cardinality({ i \in 1..Len(futs) : InFlight(futs[i]) })

\* A pool that starts a thread for every queued call.
HasFreeWorkerUnbounded(futs) == TRUE

\* ThreadPoolExecutor(max_workers=workers): a queued call starts only while
\* fewer than max_workers calls are running.
HasFreeWorker(futs) == Busy(futs) < workers

\* The work queue is first in, first out.
NextPending(futs) ==
    LET pend == { i \in 1..Len(futs) : futs[i].state = "pending" }
    IN  IF pend = {} THEN 0 ELSE CHOOSE i \in pend : \A j \in pend : i <= j

SetFutures(pool, futs) ==
    /\ results' = IF pool = "executor" THEN futs ELSE results
    /\ fallback_results' = IF pool = "executor" THEN fallback_results ELSE futs

\* ----------------------------------------------------------------- Init

OldFile(serial, ext) == << << serial, ext >>, << "old" >> >>

\* The cover directories a run may start with.
InitialDirs ==
    { {},
      { OldFile(SerialPool[1], ".jpg") },
      { OldFile(SerialPool[2], ".png") },
      { OldFile(SerialPool[1], ".jpg"), OldFile(SerialPool[2], ".txt") } }

\* The gamelist caches a run may start with: the first k serials of the pool.
Catalogs ==
    { { SerialPool[i] : i \in 1..k } : k \in (0..SmallCatalog) \cup { NumSerials } }

Init ==
    /\ emulator \in Emulators
    /\ cover_type \in CoverTypes
    /\ use_ssl \in BOOLEAN
    /\ fallback \in BOOLEAN
    /\ dirExists \in BOOLEAN
    /\ files \in IF dirExists THEN InitialDirs ELSE { {} }
    /\ cache_exists \in BOOLEAN
    /\ cache_serials \in IF cache_exists THEN Catalogs ELSE { {} }
    /\ index_exists \in BOOLEAN
    /\ pc \in { "download_covers", "download" }
    /\ Cardinality(cache_serials) > SmallCatalog =>
          /\ emulator = "pcsx2"
          /\ use_ssl
          /\ index_exists
          /\ files = {}
          /\ pc = "download"
    /\ name_list = << >>
    /\ existing_covers = {}
    /\ serial_list = << >>
    /\ cover_urls = << >>
    /\ results = << >>
    /\ failed = << >>
    /\ fallback_urls = << >>
    /\ fallback_results = << >>
    /\ idx = 0
    /\ gets = << >>
    /\ out = << >>
    /\ cache_text = << >>
    /\ regex = << >>
    /\ read_list = << >>
    /\ run = 1
    /\ skipped = {}

\* What download() is given and does not assign. The cache is given by the
\* set of serials the regular expression finds in it; the reading of its
\* characters is ReadSerials below.
inputs ==
    << emulator, cover_type, use_ssl, fallback, cache_exists, cache_serials,
       index_exists, cache_text, regex, read_list, run, skipped >>

\* --------------------------------------------------------------- download()

\* download_covers(): builds the downloader of the emulator and calls its
\* download(), or reports an invalid emulator.
DownloadCovers ==
    /\ pc = "download_covers"
    /\ IF emulator \in { "pcsx2", "duckstation" }
       THEN /\ pc' = "download"
            /\ out' = out
       ELSE /\ pc' = "done"
            /\ out' = Append(out, Line("ERROR invalid emulator", "", "", 0))
    /\ UNCHANGED << inputs, dirExists, files, name_list, existing_covers,
                    serial_list, cover_urls, results, failed, fallback_urls,
                    fallback_results, idx, gets >>

CoversUrlDefault ==
    IF emulator = "pcsx2" THEN PS2_COVERS_URL_DEFAULT ELSE PS1_COVERS_URL_DEFAULT

CoversUrl3d ==
    IF emulator = "pcsx2" THEN PS2_COVERS_URL_3D ELSE PS1_COVERS_URL_3D

\* covers_url and the extension of the primary pass.
CoversUrl == IF cover_type = 1 THEN CoversUrl3d ELSE CoversUrlDefault

CoverExt == IF cover_type = 0 THEN ".jpg" ELSE ".png"

\* cover_urls: one URL per serial of serial_list that has no cover yet.
CoverUrls(serials, existing) ==
    LET todo == Filter(serials, existing)
    IN  [ i \in 1..Len(todo) |-> FormatUrl(CoversUrl, todo[i], CoverExt) ]

\* A check that lets every emulator through.
KnownEmulatorAny(e) == TRUE

\* The emulators download() has cover roots for; any other one ends it with
\* an error.
KnownEmulator(e) == e \in { "pcsx2", "duckstation" }

\* A download() that goes on to its pools with nothing to download.
NothingToDoNever(serials) == FALSE

\* if not serial_list
NothingToDo(serials) == serials = << >>

\* download(), from its start to the creation of the first pool.
Prepare ==
    /\ pc = "download"
    /\ dirExists' = TRUE
    /\ \E ordered \in ListOfSet(cache_serials) :
         LET existing == ExistingCovers(files)
             names == GetNameList
             serials == IF cache_exists THEN GetSerialList(ordered, existing)
                        ELSE << >>
             printed == out \o GetNameListOut \o GetSerialListOut(ordered)
         IN  /\ existing_covers' = existing
             /\ name_list' = names
             /\ serial_list' = serials
             /\ IF ~KnownEmulator(emulator)
                THEN /\ out' = Append(printed,
                                      Line("ERROR invalid emulator", "", "", 0))
                     /\ cover_urls' = cover_urls
                     /\ pc' = "done"
                ELSE /\ cover_urls' = CoverUrls(serials, existing)
                     /\ IF NothingToDo(serials)
                        THEN /\ out' = Append(printed,
                                  Line("LOG all covers already downloaded",
                                       "", "", 0))
                             /\ pc' = "done"
                        ELSE /\ out' = printed
                             /\ pc' = "submit"
    /\ UNCHANGED << inputs, files, results, failed, fallback_urls,
                    fallback_results, idx, gets >>

\* One round of the loop that submits the primary downloads.
Submit ==
    /\ pc = "submit"
    /\ LET url == cover_urls[Len(results) + 1]
           cover_path == PathName(url)
       IN  results' = Append(results, Future(url, cover_path))
    /\ pc' = IF Len(results) + 1 = Len(cover_urls) THEN "collect" ELSE "submit"
    /\ idx' = 0
    /\ failed' = << >>
    /\ UNCHANGED << inputs, dirExists, files, name_list, existing_covers,
                    serial_list, cover_urls, fallback_urls, fallback_results,
                    gets, out >>

\* result.result() returns once the call has returned.
ResultReady(f) == Resolved(f)

\* The append done in both branches.
FailedAlways(fails, result, game_serial, game_name) ==
    Append(fails, << game_serial, game_name >>)

\* failed after one round of the loop: the item is appended when its
\* download returned False.
FailedAfter(fails, result, game_serial, game_name) ==
    IF result THEN fails ELSE Append(fails, << game_serial, game_name >>)

\* One round of the loop that reads the primary results.
\* result.result() raises again what the call raised, and download() ends.
Collect ==
    /\ pc = "collect"
    /\ LET i == idx + 1
           url == cover_urls[i]
           game_serial == PathStem(url)
           game_name == SerialToName(name_list, game_serial)
       IN  /\ ResultReady(results[i])
           /\ IF results[i].raised
              THEN /\ pc' = "aborted"
                   /\ UNCHANGED << out, failed >>
              ELSE /\ out' = IF results[i].result
                             THEN Append(out, Line("ok", game_serial, game_name, 0))
                             ELSE out
                   /\ failed' = FailedAfter(failed, results[i].result,
                                            game_serial, game_name)
                   /\ pc' = IF i = Len(cover_urls) THEN "exit_executor"
                            ELSE "collect"
           /\ idx' = i
    /\ UNCHANGED << inputs, dirExists, files, name_list, existing_covers,
                    serial_list, cover_urls, results, fallback_urls,
                    fallback_results, gets >>

\* Leaving a "with ThreadPoolExecutor" block: shutdown(wait=True) returns
\* once every submitted call has returned.
Drained(futs) == \A i \in 1..Len(futs) : Resolved(futs[i])

ExitExecutor ==
    /\ pc = "exit_executor"
    /\ Drained(results)
    /\ pc' = "decide"
    /\ UNCHANGED << inputs, dirExists, files, name_list, existing_covers,
                    serial_list, cover_urls, results, failed, fallback_urls,
                    fallback_results, idx, gets, out >>

\* The branch taken without the configuration flag.
RunsFallbackUnconfigured == failed # << >>

\* if failed and self.fallback
RunsFallback == failed # << >> /\ fallback

\* The fallback that asks the root of the primary pass again.
FallbackUrlBaseSameStyle == IF cover_type = 1 THEN CoversUrl3d ELSE CoversUrlDefault

\* fallback_url_base and fallback_ext
FallbackUrlBase == IF cover_type = 1 THEN CoversUrlDefault ELSE CoversUrl3d

FallbackExt == IF cover_type = 1 THEN ".jpg" ELSE ".png"

FallbackUrls(fails) ==
    [ i \in 1..Len(fails) |-> FormatUrl(FallbackUrlBase, fails[i][1], FallbackExt) ]

SkipLines(fails) ==
    [ i \in 1..Len(fails) |-> Line("skip", fails[i][1], fails[i][2], 0) ]

\* The branch after the primary pool: the fallback pass, or the report of
\* the failures.
Decide ==
    /\ pc = "decide"
    /\ IF RunsFallback
       THEN /\ fallback_urls' = FallbackUrls(failed)
            /\ out' = out
            /\ pc' = "fallback_submit"
       ELSE /\ fallback_urls' = fallback_urls
            /\ out' = out \o SkipLines(failed)
            /\ pc' = "done"
    /\ idx' = 0
    /\ UNCHANGED << inputs, dirExists, files, name_list, existing_covers,
                    serial_list, cover_urls, results, failed,
                    fallback_results, gets >>

\* One round of the loop that submits the fallback downloads.
FallbackSubmit ==
    /\ pc = "fallback_submit"
    /\ LET fb_url == fallback_urls[Len(fallback_results) + 1]
           cover_path == PathName(fb_url)
       IN  fallback_results' = Append(fallback_results, Future(fb_url, cover_path))
    /\ pc' = IF Len(fallback_results) + 1 = Len(fallback_urls)
             THEN "fallback_collect" ELSE "fallback_submit"
    /\ UNCHANGED << inputs, dirExists, files, name_list, existing_covers,
                    serial_list, cover_urls, results, failed, fallback_urls,
                    idx, gets, out >>

\* One round of the loop that reads the fallback results.
FallbackCollect ==
    /\ pc = "fallback_collect"
    /\ LET i == idx + 1
           serial == failed[i][1]
           name == failed[i][2]
       IN  /\ ResultReady(fallback_results[i])
           /\ IF fallback_results[i].raised
              THEN /\ pc' = "aborted"
                   /\ out' = out
              ELSE /\ out' = IF fallback_results[i].result
                             THEN Append(out, Line("ok fallback", serial, name, 0))
                             ELSE Append(out, Line("skip", serial, name, 0))
                   /\ pc' = IF i = Len(failed) THEN "exit_fallback_executor"
                            ELSE "fallback_collect"
           /\ idx' = i
    /\ UNCHANGED << inputs, dirExists, files, name_list, existing_covers,
                    serial_list, cover_urls, results, failed, fallback_urls,
                    fallback_results, gets >>

ExitFallbackExecutor ==
    /\ pc = "exit_fallback_executor"
    /\ Drained(fallback_results)
    /\ pc' = "done"
    /\ UNCHANGED << inputs, dirExists, files, name_list, existing_covers,
                    serial_list, cover_urls, results, failed, fallback_urls,
                    fallback_results, idx, gets, out >>

\* ------------------------------------------------------------ pool workers

\* A worker thread of the pool takes the next queued call and download_cover()
\* issues its requests.get().
StartFetch(pool) ==
    LET futs == Futures(pool)
        i == NextPending(futs)
    IN  /\ i # 0
        /\ HasFreeWorker(futs)
        /\ gets' = gets \o GetsIssued(pool, futs[i].url)
        /\ SetFutures(pool, [ futs EXCEPT ![i].state = "running" ])
        /\ UNCHANGED << inputs, dirExists, files, name_list, pc,
                        existing_covers, serial_list, cover_urls, failed,
                        fallback_urls, idx, out >>

\* requests.get() comes back and download_cover() returns.
Respond(pool, i, resp) ==
    LET futs == Futures(pool)
    IN  /\ i \in 1..Len(futs)
        /\ futs[i].state = "running"
        /\ files' = IF WritesCover(resp)
                    THEN WriteFile(files, futs[i].cover_path,
                                   RequestUrl(futs[i].url))
                    ELSE files
        /\ SetFutures(pool,
              [ futs EXCEPT ![i].state = "done",
                            ![i].raised = Raises(resp),
                            ![i].result = ~Raises(resp) /\ DownloadCoverResult(resp) ])
        /\ UNCHANGED << inputs, dirExists, name_list, pc, existing_covers,
                        serial_list, cover_urls, failed, fallback_urls, idx,
                        gets, out >>

\* requests.get(url) is called without a timeout: when the remote never
\* answers, the call never returns.
Stall(pool, i) ==
    LET futs == Futures(pool)
    IN  /\ i \in 1..Len(futs)
        /\ futs[i].state = "running"
        /\ SetFutures(pool, [ futs EXCEPT ![i].state = "hung" ])
        /\ UNCHANGED << inputs, dirExists, files, name_list, pc,
                        existing_covers, serial_list, cover_urls, failed,
                        fallback_urls, idx, gets, out >>

Next ==
    \/ DownloadCovers
    \/ Prepare
    \/ Submit
    \/ Collect
    \/ ExitExecutor
    \/ Decide
    \/ FallbackSubmit
    \/ FallbackCollect
    \/ ExitFallbackExecutor
    \/ \E pool \in Pools : StartFetch(pool)
    \/ \E pool \in Pools, i \in 1..NumSerials, resp \in Responses :
         Respond(pool, i, resp)
    \/ \E pool \in Pools, i \in 1..NumSerials : Stall(pool, i)

Spec == Init /\ [][Next]_vars

\* The main thread and the pool workers keep running, and a remote that
\* answers at all answers eventually; nothing makes a silent remote answer.
Main ==
    \/ DownloadCovers \/ Prepare \/ Submit \/ Collect \/ ExitExecutor
    \/ Decide \/ FallbackSubmit \/ FallbackCollect \/ ExitFallbackExecutor

FairSpec ==
    /\ Spec
    /\ WF_vars(Main)
    /\ \A pool \in Pools : WF_vars(StartFetch(pool))
    /\ \A pool \in Pools, i \in 1..NumSerials :
         WF_vars(\E resp \in Responses : Respond(pool, i, resp))

\* ------------------------------------------------- reading the cache text

\* Number of words a cache text is made of, at most.
MaxWords == 2

Letters == { "S", "L", "U", "C", "E", "X", "A", "B", "s", "l", "u" }

Digits == { "0", "1", "2", "3", "4", "5", "6", "7", "8", "9" }

\* \w
IsWordChar(c) == c \in Letters \cup Digits \cup { "_" }

\* \d
IsDigit(c) == c \in Digits

\* Whether \w{4}-\d{5} matches the text from position pos on.
MatchAt(txt, pos) ==
    /\ pos + 9 <= Len(txt)
    /\ \A k \in 0..3 : IsWordChar(txt[pos + k])
    /\ txt[pos + 4] = "-"
    /\ \A k \in 5..9 : IsDigit(txt[pos + k])

\* re.findall(): the matches from left to right, each search starting where
\* the last match ended.
RECURSIVE FindFrom(_, _)
FindFrom(txt, pos) ==
    IF pos > Len(txt) THEN << >>
    ELSE IF MatchAt(txt, pos)
         THEN << SubSeq(txt, pos, pos + 9) >> \o FindFrom(txt, pos + 10)
         ELSE FindFrom(txt, pos + 1)

FindAll(txt) == FindFrom(txt, 1)

\* list(set(regex)): every element once; the order is the one of the first
\* occurrences.
RECURSIVE Distinct(_)
Distinct(q) ==
    IF q = << >> THEN << >>
    ELSE LET front == Distinct(SubSeq(q, 1, Len(q) - 1))
             last == q[Len(q)]
         IN  IF last \in Range(front) THEN front ELSE Append(front, last)

\* The words a cache text may hold.
Words ==
    { << "S", "L", "U", "S", "-", "2", "0", "0", "0", "1" >>,
      << "S", "C", "E", "S", "-", "5", "0", "0", "0", "1" >>,
      << "s", "l", "u", "s", "-", "2", "0", "0", "0", "1" >>,
      << "1", "2", "3", "4", "-", "5", "6", "7", "8", "9" >>,
      << "A", "B", "_", "1", "-", "1", "2", "3", "4", "5" >>,
      << "S", "L", "U", "-", "2", "0", "0", "0", "1" >>,
      << "S", "L", "U", "S", "-", "2", "0", "0", "0" >>,
      << "X", "S", "L", "U", "S", "-", "2", "0", "0", "0", "1", "2" >> }

\* The texts of up to n words, each followed by a blank.
RECURSIVE TextsOf(_)
TextsOf(n) ==
    IF n = 0 THEN { << >> }
    ELSE TextsOf(n - 1)
           \cup { t \o w \o << " " >> : t \in TextsOf(n - 1), w \in Words }

\* get_serial_list() is given a cache file that exists.
InitRead ==
    /\ cache_text \in TextsOf(MaxWords)
    /\ regex = << >>
    /\ read_list = << >>
    /\ pc = "read"
    /\ emulator = "pcsx2"
    /\ cover_type = 0
    /\ use_ssl = TRUE
    /\ fallback = FALSE
    /\ dirExists = TRUE
    /\ files = {}
    /\ cache_exists = TRUE
    /\ cache_serials = {}
    /\ index_exists = TRUE
    /\ name_list = << >>
    /\ existing_covers = {}
    /\ serial_list = << >>
    /\ cover_urls = << >>
    /\ results = << >>
    /\ failed = << >>
    /\ fallback_urls = << >>
    /\ fallback_results = << >>
    /\ idx = 0
    /\ gets = << >>
    /\ out = << >>
    /\ run = 1
    /\ skipped = {}

\* get_serial_list(), lines 40-42: the expression is applied to the text of
\* the file and the matches are made a list without repeats.
ReadSerials ==
    /\ pc = "read"
    /\ regex' = FindAll(cache_text)
    /\ read_list' = Distinct(FindAll(cache_text))
    /\ pc' = "read_done"
    /\ UNCHANGED << emulator, cover_type, use_ssl, fallback, dirExists, files,
                    cache_exists, cache_serials, index_exists, name_list,
                    existing_covers, serial_list, cover_urls, results, failed,
                    fallback_urls, fallback_results, idx, gets, out,
                    cache_text, run, skipped >>

ReadSpec == InitRead /\ [][ReadSerials]_vars

\* ------------------------------------------------------------ a second run

\* The program is started again on the same configuration, catalog and cover
\* directory once a run has ended: every local of download() starts anew and
\* only the directory is what the run before left.
Restart ==
    /\ pc = "done"
    /\ run = 1
    /\ run' = 2
    /\ skipped' = { out[i].serial : i \in { j \in 1..Len(out) : out[j].kind = "skip" } }
    /\ pc' \in { "download_covers", "download" }
    /\ name_list' = << >>
    /\ existing_covers' = {}
    /\ serial_list' = << >>
    /\ cover_urls' = << >>
    /\ results' = << >>
    /\ failed' = << >>
    /\ fallback_urls' = << >>
    /\ fallback_results' = << >>
    /\ idx' = 0
    /\ gets' = << >>
    /\ out' = << >>
    /\ UNCHANGED << emulator, cover_type, use_ssl, fallback, cache_exists,
                    cache_serials, index_exists, cache_text, regex, read_list,
                    dirExists, files >>

InitRerun == Init /\ Cardinality(cache_serials) <= SmallCatalog

NextRerun == Next \/ Restart

RerunSpec == InitRerun /\ [][NextRerun]_vars

\* ================================================================== claims

\* The serial a requested URL names: the token before the extension.
SerialOfUrl(url) == url[Len(url) - 1]

GetsOfPool(pool) == { i \in 1..Len(gets) : gets[i].pool = pool }

GetsFor(pool, serial) ==
    { i \in GetsOfPool(pool) : SerialOfUrl(gets[i].url) = serial }

LinesFor(kind, serial) ==
    { i \in 1..Len(out) : out[i].kind = kind /\ out[i].serial = serial }

LinesOf(kind) == { i \in 1..Len(out) : out[i].kind = kind }

FailedFor(serial) == { i \in 1..Len(failed) : failed[i][1] = serial }

FailedSerials == { failed[i][1] : i \in 1..Len(failed) }

\* The primary pool has been left and download() did not end there by an error.
PrimaryPassOver ==
    \/ pc \in { "decide", "fallback_submit", "fallback_collect",
                "exit_fallback_executor" }
    \/ pc = "done" /\ results # << >>

\* The fallback pool has been left.
FallbackPassOver == pc = "done" /\ fallback_results # << >>

\* C1: no GET is ever issued, by either pool, for a serial of the
\* existing-cover snapshot taken at the start of the run.
C1_NoGetForExistingCover ==
    \A i \in 1..Len(gets) : SerialOfUrl(gets[i].url) \notin existing_covers

\* A finished run that issued requests although some serial of the cache
\* already had a cover.
C1_Witness ==
    /\ pc = "done"
    /\ gets # << >>
    /\ existing_covers \cap cache_serials # {}

\* C2: when a pass is over, every item of its work list has exactly one
\* outcome and the number of outcomes is the size of the work list: in the
\* primary pass a success line or an entry of failed, in the fallback pass a
\* fallback-success line or a skip line.
C2_OneOutcomePerItem ==
    /\ PrimaryPassOver =>
         /\ Len(cover_urls) = Len(serial_list)
         /\ \A i \in 1..Len(serial_list) :
              Cardinality(LinesFor("ok", serial_list[i]))
                + Cardinality(FailedFor(serial_list[i])) = 1
         /\ Cardinality(LinesOf("ok")) + Len(failed) = Len(serial_list)
    /\ FallbackPassOver =>
         /\ Len(fallback_urls) = Len(failed)
         /\ \A s \in FailedSerials :
              Cardinality(LinesFor("ok fallback", s))
                + Cardinality(LinesFor("skip", s)) = 1
         /\ Cardinality(LinesOf("ok fallback")) + Cardinality(LinesOf("skip"))
              = Len(failed)

\* A finished run of two passes with a primary success, a fallback success
\* and a final failure.
C2_Witness ==
    /\ FallbackPassOver
    /\ LinesOf("ok") # {}
    /\ LinesOf("ok fallback") # {}
    /\ LinesOf("skip") # {}

\* C3: a fallback GET is issued only when fallback is enabled and failed is
\* not empty, and a run that ends with both does issue one; a run that ends
\* otherwise issued no request after the primary pass and printed one skip
\* line for each primary failure.
C3_FallbackIffEnabledAndFailed ==
    /\ GetsOfPool("fallback_executor") # {} => fallback /\ failed # << >>
    /\ fallback_results # << >> => fallback /\ failed # << >>
    /\ pc = "done" /\ fallback /\ failed # << >> =>
         GetsOfPool("fallback_executor") # {}
    /\ pc = "done" /\ results # << >> /\ ~(fallback /\ failed # << >>) =>
         /\ Len(gets) = Len(cover_urls)
         /\ LinesOf("ok fallback") = {}
         /\ Cardinality(LinesOf("skip")) = Len(failed)
         /\ \A s \in FailedSerials : Cardinality(LinesFor("skip", s)) = 1

\* A finished run with primary failures and fallback disabled.
C3_Witness ==
    /\ pc = "done"
    /\ ~fallback
    /\ failed # << >>
    /\ LinesOf("skip") # {}

\* Requests of a pool that were issued and whose call has not returned.
Unreturned(pool) ==
    Cardinality(GetsOfPool(pool))
      - Cardinality({ i \in 1..Len(Futures(pool)) :
                        Futures(pool)[i].state = "done" })

\* C4: in every state, at most 4 requests of a pool are in flight.
C4_AtMostFourInFlight == \A pool \in Pools : Unreturned(pool) <= 4

\* Four requests in flight while a fifth download waits in the queue.
C4_Witness ==
    \E pool \in Pools :
      /\ Unreturned(pool) = 4
      /\ \E i \in 1..Len(Futures(pool)) : Futures(pool)[i].state = "pending"

AllReturned(futs) == \A i \in 1..Len(futs) : futs[i].state = "done"

\* C5: the passes do not overlap. A fallback download is submitted or
\* requested, the fallback decision is taken and a skip line is printed only
\* when every primary download has been submitted and has returned; and the
\* run ends only when every download of both pools has returned.
C5_PassesNeverOverlap ==
    /\ \/ fallback_results # << >>
       \/ GetsOfPool("fallback_executor") # {}
       \/ LinesOf("skip") # {}
       \/ pc \in { "decide", "fallback_submit", "fallback_collect",
                   "exit_fallback_executor" }
       => /\ Len(results) = Len(cover_urls)
          /\ AllReturned(results)
    /\ pc = "done" =>
          /\ Len(results) = Len(cover_urls)
          /\ AllReturned(results)
          /\ Len(fallback_results) = Len(fallback_urls)
          /\ AllReturned(fallback_results)

\* A fallback request in flight after a primary pass of several downloads.
C5_Witness ==
    /\ Len(results) >= 2
    /\ \E i \in 1..Len(fallback_results) : fallback_results[i].state = "running"

\* The four roots by emulator and style, and the extension by style.
RootOf(emu, style) ==
    IF emu = "pcsx2"
    THEN IF style = 1 THEN PS2_COVERS_URL_3D ELSE PS2_COVERS_URL_DEFAULT
    ELSE IF style = 1 THEN PS1_COVERS_URL_3D ELSE PS1_COVERS_URL_DEFAULT

ExtOf(style) == IF style = 1 THEN ".png" ELSE ".jpg"

OtherStyle(style) == 1 - style

\* The URL as requested under the transport flag.
Transported(url) == IF use_ssl THEN url ELSE << "http://" >> \o Tail(url)

FileNames == { f[1] : f \in files }

\* C6: every primary request names the root and extension of the configured
\* style of the emulator, every fallback request names the root and the
\* extension of the other style of the same emulator, and a fallback success
\* leaves the file <serial> + the other style's extension.
C6_FallbackTargetsOtherStyle ==
    /\ \A i \in GetsOfPool("executor") :
         \E s \in Range(serial_list) :
           gets[i].url =
             Transported(RootOf(emulator, cover_type)
                           \o << "/", s, ExtOf(cover_type) >>)
    /\ \A i \in GetsOfPool("fallback_executor") :
         \E s \in FailedSerials :
           gets[i].url =
             Transported(RootOf(emulator, OtherStyle(cover_type))
                           \o << "/", s, ExtOf(OtherStyle(cover_type)) >>)
    /\ \A i \in 1..Len(fallback_results) :
         fallback_results[i].state = "done" /\ fallback_results[i].result =>
           << failed[i][1], ExtOf(OtherStyle(cover_type)) >> \in FileNames

\* A finished run for 3D covers of duckstation with a fallback success.
C6_Witness ==
    /\ pc = "done"
    /\ emulator = "duckstation"
    /\ cover_type = 1
    /\ LinesOf("ok fallback") # {}

FilesAt(name) == { f \in files : f[1] = name }

AllFutures == { results[i] : i \in 1..Len(results) }
                 \cup { fallback_results[i] : i \in 1..Len(fallback_results) }

Downloaded == { f \in files : f[2] # << "old" >> }

\* The state part of C7: the target file of a download exists, holding the
\* body of the requested URL, exactly when the download returned True; and
\* at the end of the run a serial has a downloaded file exactly when a
\* success or fallback-success line was printed for it.
C7_FileIffSuccess ==
    /\ \A f \in AllFutures :
         IF f.state = "done" /\ f.result
         THEN FilesAt(f.cover_path) = { << f.cover_path, RequestUrl(f.url) >> }
         ELSE FilesAt(f.cover_path) = {}
    /\ pc = "done" =>
         \A s \in Range(serial_list) :
           (\E f \in Downloaded : f[1][1] = s)
             <=> (LinesFor("ok", s) # {} \/ LinesFor("ok fallback", s) # {})

\* The step part of C7: a response with status 200 makes the download return
\* True and writes its target file; any other status and any transport
\* error makes it return False and leaves every file as it was; and no other
\* step touches a file.
C7_WriteExactlyOn200 ==
    /\ \A pool \in Pools, i \in 1..NumSerials :
         /\ Respond(pool, i, "200") =>
              /\ Futures(pool)'[i].result
              /\ << Futures(pool)[i].cover_path, RequestUrl(Futures(pool)[i].url) >>
                   \in files'
         /\ Respond(pool, i, "404") \/ Respond(pool, i, "RequestException") =>
              /\ ~Futures(pool)'[i].result
              /\ ~Futures(pool)'[i].raised
              /\ files' = files
    /\ files' # files =>
         \E pool \in Pools, i \in 1..NumSerials : Respond(pool, i, "200")

\* C7: a fetch succeeds exactly when the GET returns 200 and the cover file
\* is written exactly then; a cover file is written for a work item exactly
\* when its final outcome is a success or a fallback success.
C7_SuccessExactlyOn200 == []C7_FileIffSuccess /\ [][C7_WriteExactlyOn200]_vars

\* A finished run in which one download wrote its file and another failed
\* twice and left none.
C7_Witness ==
    /\ pc = "done"
    /\ \E f \in AllFutures : f.result /\ FilesAt(f.cover_path) # {}
    /\ \E i \in 1..Len(fallback_results) :
         /\ ~fallback_results[i].result
         /\ \A ext \in { ".jpg", ".png" } : FilesAt(<< failed[i][1], ext >>) = {}

\* C8: a pool issues exactly one GET for each download it has started, so a
\* serial gets at most one GET per pass and two per run; a serial with a
\* primary success gets no fallback GET and no second outcome.
C8_NoRetry ==
    /\ \A pool \in Pools :
         /\ Cardinality(GetsOfPool(pool))
              = Cardinality({ i \in 1..Len(Futures(pool)) :
                                Futures(pool)[i].state # "pending" })
         /\ \A s \in cache_serials : Cardinality(GetsFor(pool, s)) <= 1
    /\ \A s \in cache_serials :
         Cardinality({ i \in 1..Len(gets) : SerialOfUrl(gets[i].url) = s }) <= 2
    /\ \A i \in 1..Len(results) :
         results[i].result =>
           GetsFor("fallback_executor", SerialOfUrl(results[i].url)) = {}
    /\ \A s \in cache_serials :
         LinesFor("ok", s) # {} =>
           /\ FailedFor(s) = {}
           /\ LinesFor("ok fallback", s) = {}
           /\ LinesFor("skip", s) = {}
           /\ GetsFor("fallback_executor", s) = {}

\* A finished run in which one serial was requested twice, once by each pool,
\* and another serial succeeded in the primary pass.
C8_Witness ==
    /\ pc = "done"
    /\ \E s \in cache_serials :
         /\ GetsFor("executor", s) # {}
         /\ GetsFor("fallback_executor", s) # {}
    /\ LinesOf("ok") # {}

\* C9: a failed download never ends the run: download() is never left by an
\* error, and when a pass is over every one of its items was requested, has
\* returned and has its outcome, whatever the other items of the pass did.
C9_FailureNeverAborts ==
    /\ pc # "aborted"
    /\ \A f \in AllFutures : ~f.raised
    /\ PrimaryPassOver =>
         \A i \in 1..Len(cover_urls) :
           /\ GetsFor("executor", SerialOfUrl(cover_urls[i])) # {}
           /\ results[i].state = "done"
           /\ \/ LinesFor("ok", SerialOfUrl(cover_urls[i])) # {}
              \/ FailedFor(SerialOfUrl(cover_urls[i])) # {}
    /\ FallbackPassOver =>
         \A i \in 1..Len(failed) :
           /\ GetsFor("fallback_executor", failed[i][1]) # {}
           /\ fallback_results[i].state = "done"
           /\ \/ LinesFor("ok fallback", failed[i][1]) # {}
              \/ LinesFor("skip", failed[i][1]) # {}

\* A finished run whose passes both had a failure and a success.
C9_Witness ==
    /\ FallbackPassOver
    /\ \E i, j \in 1..Len(results) : results[i].result /\ ~results[j].result
    /\ \E i, j \in 1..Len(fallback_results) :
         fallback_results[i].result /\ ~fallback_results[j].result

\* C10: every run reaches its end, also when a remote never answers.
C10_RunCompletes == <>(pc = "done")

Recognized == emulator \in { "pcsx2", "duckstation" }

InvalidEmulatorLine == Line("ERROR invalid emulator", "", "", 0)

AllDownloadedLine == Line("LOG all covers already downloaded", "", "", 0)

CacheNotFoundLine == Line("ERROR gamelist.cache file not found", "", "", 0)

\* The run has gone past the first part of download().
Prepared == pc \notin { "download_covers", "download" }

\* C11: with an emulator that is not pcsx2 or duckstation no GET is ever
\* issued and no download is ever submitted, and the run, started through
\* download_covers() or through download(), ends with the invalid-emulator
\* error as its last line.
C11_InvalidEmulatorNoGet ==
    ~Recognized =>
      /\ gets = << >>
      /\ results = << >>
      /\ fallback_results = << >>
      /\ pc \in { "download_covers", "download", "done" }
      /\ pc = "done" => /\ out # << >>
                        /\ out[Len(out)] = InvalidEmulatorLine

\* A run of download() on an unknown emulator and a cache that holds serials
\* without a cover, ended.
C11_Witness ==
    /\ ~Recognized
    /\ pc = "done"
    /\ cache_serials \ existing_covers # {}
    /\ Len(out) > 1

\* The state part of C12: a run on an unknown emulator prints the
\* configuration error and nothing else.
C12_OnlyTheError ==
    ~Recognized /\ pc = "done" => out = << InvalidEmulatorLine >>

\* The step part of C12: a run on an unknown emulator does not create the
\* cover directory and takes no snapshot of the directory, the dataset or
\* the cache.
C12_NoWork ==
    ~Recognized =>
      /\ dirExists' = dirExists
      /\ existing_covers' = existing_covers
      /\ name_list' = name_list
      /\ serial_list' = serial_list

\* C12: with an unknown emulator, download() reports the configuration error
\* before it creates the cover directory or reads the directory, the dataset
\* or the cache.
C12_FailsFastBeforeAnyWork == []C12_OnlyTheError /\ [][C12_NoWork]_vars

\* C13: for a recognized emulator, when every serial of the cache already
\* has a cover (or the cache holds none), the run issues no GET in either
\* pool, writes no file and, once past its first part, has ended with the
\* all-covers-downloaded line as its last line.
C13_EmptyWorkListIsNormalEnd ==
    Recognized /\ cache_serials \subseteq existing_covers =>
      /\ gets = << >>
      /\ results = << >>
      /\ fallback_results = << >>
      /\ \A f \in files : f[2] = << "old" >>
      /\ Prepared =>
           /\ pc = "done"
           /\ serial_list = << >>
           /\ out[Len(out)] = AllDownloadedLine
           /\ \A i \in 1..Len(out) : out[i] # InvalidEmulatorLine

\* A run that ended there because the one serial of the cache had a cover.
C13_Witness ==
    /\ Recognized
    /\ pc = "done"
    /\ cache_serials # {}
    /\ cache_serials \subseteq existing_covers
    /\ out[Len(out)] = AllDownloadedLine

\* C14: when the gamelist cache is absent, the reader prints its
\* cache-not-found line and returns an empty list: the work list is empty,
\* no GET is issued, download() is not left by an error, and for a
\* recognized emulator the run ends with the all-covers-downloaded line.
C14_MissingCatalogIsNotFatal ==
    ~cache_exists =>
      /\ gets = << >>
      /\ serial_list = << >>
      /\ pc # "aborted"
      /\ Prepared /\ (Recognized \/ Len(out) > 1) =>
           /\ pc = "done"
           /\ \E i \in 1..Len(out) : out[i] = CacheNotFoundLine
           /\ \A i \in 1..Len(out) : out[i].kind # "LOG games found"
      /\ Prepared /\ Recognized => out[Len(out)] = AllDownloadedLine

\* A run on a recognized emulator that ended after the cache was not found.
C14_Witness ==
    /\ ~cache_exists
    /\ Recognized
    /\ pc = "done"
    /\ \E i \in 1..Len(out) : out[i] = CacheNotFoundLine

StyleOfPool(pool) ==
    IF pool = "executor" THEN cover_type ELSE OtherStyle(cover_type)

SchemeOfFlag == IF use_ssl THEN "https://" ELSE "http://"

\* C15: every requested URL is the scheme of the transport flag, the rest of
\* the root that the table gives for (emulator, style of the pass), "/", a
\* serial of the cache and the extension of that style, with no other scheme
\* in it; two requests of one pass for one serial name the same URL.
C15_UrlByTableAndFlag ==
    /\ \A i \in 1..Len(gets) :
         LET u == gets[i].url
             root == RootOf(emulator, StyleOfPool(gets[i].pool))
         IN  /\ Len(u) = Len(root) + 3
             /\ u[1] = SchemeOfFlag
             /\ \A k \in 2..Len(u) : u[k] \notin { "https://", "http://" }
             /\ SubSeq(u, 2, Len(root)) = Tail(root)
             /\ u[Len(root) + 1] = "/"
             /\ u[Len(root) + 2] \in cache_serials
             /\ u[Len(root) + 3] = ExtOf(StyleOfPool(gets[i].pool))
    /\ \A i, j \in 1..Len(gets) :
         /\ gets[i].pool = gets[j].pool
         /\ SerialOfUrl(gets[i].url) = SerialOfUrl(gets[j].url)
         => gets[i].url = gets[j].url

\* A finished run with plain transport that requested in both passes.
C15_Witness ==
    /\ pc = "done"
    /\ ~use_ssl
    /\ GetsOfPool("executor") # {}
    /\ GetsOfPool("fallback_executor") # {}

PoolRunning ==
    pc \in { "submit", "collect", "exit_executor", "fallback_submit",
             "fallback_collect", "exit_fallback_executor" }

\* The state part of C16: the work list names no serial twice, every
\* download writes to the path made of its own serial and the extension of
\* its URL, and no two downloads of a pool, in flight or not, have the same
\* target path.
C16_DistinctTargets ==
    /\ \A i, j \in 1..Len(serial_list) :
         i # j => serial_list[i] # serial_list[j]
    /\ \A pool \in Pools :
         LET futs == Futures(pool)
         IN  /\ \A i \in 1..Len(futs) :
                  futs[i].cover_path
                    = << futs[i].url[Len(futs[i].url) - 1],
                         futs[i].url[Len(futs[i].url)] >>
             /\ \A i, j \in 1..Len(futs) :
                  i # j => futs[i].cover_path # futs[j].cover_path

\* The step part of C16: while a pool is running, the snapshot of existing
\* covers, the work list and its URLs stay as they are.
C16_SnapshotsFrozen ==
    PoolRunning =>
      /\ existing_covers' = existing_covers
      /\ serial_list' = serial_list
      /\ cover_urls' = cover_urls

\* C16: no two downloads in flight share a target path, and the existing
\* cover set and the work list do not change while a pool runs.
C16_NoWriteWriteConflict == []C16_DistinctTargets /\ [][C16_SnapshotsFrozen]_vars

\* Four downloads of one pool in flight at once.
C16_Witness ==
    \E pool \in Pools :
      Cardinality({ i \in 1..Len(Futures(pool)) :
                      Futures(pool)[i].state = "running" }) = 4

IndexNotFoundLine == Line("ERROR index file not found", "", "", 0)

\* The names the run has looked up so far: the ones of the failures and of
\* the lines about a serial.
NamesLookedUp ==
    { failed[i][2] : i \in 1..Len(failed) }
      \cup { out[i].name : i \in { j \in 1..Len(out) : out[j].serial # "" } }

\* download() has run its first part (and not only download_covers()).
DownloadEntered == Prepared /\ (Recognized \/ Len(out) > 1)

C18_SerialsAreFourLetters ==
    pc = "read_done" =>
      /\ \A i, j \in 1..Len(read_list) : i # j => read_list[i] # read_list[j]
      /\ \A i \in 1..Len(read_list) :
           /\ Len(read_list[i]) = 10
           /\ \A k \in 1..4 : read_list[i][k] \in Letters
           /\ read_list[i][5] = "-"
           /\ \A k \in 6..10 : read_list[i][k] \in Digits

\* The serials that had a cover file of either style when the run started.
Covered ==
    { f[1][1] : f \in { g \in files : /\ g[2] = << "old" >>
                                      /\ g[1][2] \in { ".jpg", ".png" } } }

\* C19: a serial that has a cover file of either style, .jpg or .png, is in
\* the snapshot of existing covers and in no work list whatever style is
\* requested, no GET is issued for it in either pass, and no cover is
\* downloaded for it in the run.
C19_ExclusionIgnoresExtension ==
    \A s \in Covered :
      /\ DownloadEntered => s \in existing_covers /\ s \notin Range(serial_list)
      /\ \A i \in 1..Len(cover_urls) : SerialOfUrl(cover_urls[i]) # s
      /\ \A i \in 1..Len(gets) : SerialOfUrl(gets[i].url) # s
      /\ \A f \in Downloaded : f[1][1] # s

\* A finished run that requested .jpg covers, fetched some, and whose catalog
\* names a serial that had a .png cover only.
C19_Witness ==
    /\ pc = "done"
    /\ cover_type = 0
    /\ gets # << >>
    /\ \E s \in Covered \cap cache_serials :
         /\ << s, ".png" >> \in FileNames
         /\ << s, ".jpg" >> \notin FileNames

\* C20: in a second run on the same catalog and cover directory every GET
\* names a serial the first run gave up on (its last line was the skip
\* line), so none names a serial the first run downloaded from either style
\* and none is issued when the first run gave up on nothing; and when the
\* second run has ended, every serial the first run gave up on has been
\* requested.
C20_SecondRunFetchesOnlyTheSkipped ==
    run = 2 =>
      /\ { SerialOfUrl(gets[i].url) : i \in 1..Len(gets) } \subseteq skipped
      /\ pc = "done" =>
           { SerialOfUrl(gets[i].url) : i \in GetsOfPool("executor") } = skipped

\* A second run has ended, the first run gave up on some serial and
\* downloaded the cover of another one.
C20_Witness ==
    /\ run = 2
    /\ pc = "done"
    /\ skipped # {}
    /\ gets # << >>
    /\ \E f \in Downloaded : f[1][1] \notin skipped

====
